---------------------------- MODULE Spec2Model ----------------------------
(***************************************************************************)
(* Critical Path Method analyzer (src/cpm.py, duplicated in                *)
(* src/vallourec_po.py).                                                   *)
(*                                                                         *)
(* The task table `mydata` has ntask rows; row i has a code COD[i], a      *)
(* duration DUR[i] and a predecessor field PRE[i].  PRE[i] is modelled by  *)
(* the set of codes the field yields after split(',') and strip(): an      *)
(* empty or NaN field and a field holding only separators both give the    *)
(* empty set, and both branches of forwardPass then leave ES = 0 and       *)
(* EF = DUR.  Rows are indexed 1..ntask (0..ntask-1 in the source).        *)
(*                                                                         *)
(* One step of the model is one iteration of a `while changed` loop (a     *)
(* full pass over the table), or one of the straight-line blocks between   *)
(* the loops.  The numpy arrays are int32; within the bounds below every   *)
(* value stays far inside the int32 range, so no wrap-around occurs.       *)
(***************************************************************************)
EXTENDS Integers, Sequences, FiniteSets

\* ---- bounds of the model ----
MaxTasks == 3
MaxDur == 1
MaxPasses == 6
AnyTasks == 2
WideTasks == 4

VARIABLES ntask, DUR, PRE, pc, ES, EF, LS, LF, SUC, SLACK, cols,
          fpasses, bpasses, path, errCode

vars == <<ntask, DUR, PRE, pc, ES, EF, LS, LF, SUC, SLACK, cols,
          fpasses, bpasses, path, errCode>>

\* ---- the table ----
\* Task codes, one per row: mydata['COD'].
COD == <<"A", "B", "C", "D", "E", "F">>

\* A predecessor code that is the COD of no row.
UnknownCode == "X"

\* The value of errCode while no error was printed.
NoCode == "-"

Rows == 1..ntask

KnownCodes(k) == {COD[i] : i \in 1..k}

Max(S) == CHOOSE x \in S : \A y \in S : y <= x

Min(S) == CHOOSE x \in S : \A y \in S : x <= y

Zeros(k) == [i \in 1..k |-> 0]

\* getTaskIndex: the first row whose COD equals the code; 0 stands for the
\* IndexError branch, which calls errorCodeMsg(code) and quits.
getTaskIndex(code) ==
    IF \E i \in Rows : COD[i] = code
    THEN Min({i \in Rows : COD[i] = code})
    ELSE 0

\* ---- forwardPass: one iteration of `while changed` ----
\* forwardRow with the lookup failure ignored, as the `pred_idx is not None`
\* test would if getTaskIndex returned None for a code it does not find.
forwardRowSkipsUnknown(s, i) ==
    LET found == {p \in PRE[i] : getTaskIndex(p) # 0}
        max_ef == IF found = {} THEN 0
                  ELSE Max({s.EF[getTaskIndex(p)] : p \in found})
    IN  [s EXCEPT !.ES[i] = max_ef,
                  !.EF[i] = max_ef + DUR[i],
                  !.changed = s.changed \/ (max_ef # s.ES[i])]

\* forwardRow with `changed` set by a change of EF as well as of ES.
forwardRowTracksEF(s, i) ==
    LET max_ef == IF PRE[i] = {} THEN 0
                  ELSE Max({s.EF[getTaskIndex(p)] : p \in PRE[i]})
    IN  [s EXCEPT !.ES[i] = max_ef,
                  !.EF[i] = max_ef + DUR[i],
                  !.changed = \/ s.changed
                              \/ max_ef # s.ES[i]
                              \/ max_ef + DUR[i] # s.EF[i]]

\* The body of `for i in range(ntask)` for row i, on the arrays in s.
\* s.bad holds the codes getTaskIndex did not find: the run quits there.
forwardRow(s, i) ==
    IF PRE[i] = {}
    THEN [s EXCEPT !.ES[i] = 0,
                   !.EF[i] = DUR[i],
                   !.changed = s.changed \/ (0 # s.ES[i])]
    ELSE LET notFound == {p \in PRE[i] : getTaskIndex(p) = 0}
             max_ef == Max({s.EF[getTaskIndex(p)] : p \in PRE[i]})
         IN  IF notFound # {}
             THEN [s EXCEPT !.bad = notFound]
             ELSE [s EXCEPT !.ES[i] = max_ef,
                            !.EF[i] = max_ef + DUR[i],
                            !.changed = s.changed \/ (max_ef # s.ES[i])]

RECURSIVE forwardLoop(_, _)
forwardLoop(s, i) ==
    IF i > ntask \/ s.bad # {}
    THEN s
    ELSE forwardLoop(forwardRow(s, i), i + 1)

forwardSweep ==
    forwardLoop([ES |-> ES, EF |-> EF, changed |-> FALSE, bad |-> {}], 1)

\* One pass of forwardPass's loop.  A code that is not found ends the run
\* (errorCodeMsg prints it and quits); a pass without a change of ES stores
\* the ES and EF columns and returns to computeCPM.
forwardPass ==
    /\ pc = "forwardPass"
    /\ fpasses < MaxPasses
    /\ LET r == forwardSweep
       IN  IF r.bad # {}
           THEN /\ \E c \in r.bad : errCode' = c
                /\ pc' = "quit"
                /\ UNCHANGED <<ES, EF, cols, fpasses>>
           ELSE /\ ES' = r.ES
                /\ EF' = r.EF
                /\ fpasses' = fpasses + 1
                /\ pc' = IF r.changed THEN "forwardPass" ELSE "backwardInit"
                /\ cols' = IF r.changed THEN cols ELSE cols \cup {"ES", "EF"}
                /\ UNCHANGED errCode
    /\ UNCHANGED <<ntask, DUR, PRE, LS, LF, SUC, SLACK, bpasses, path>>

\* ---- backwardPass ----
\* The successor list: SUC[i] holds the codes of the rows naming row i.
successors(i) == {COD[j] : j \in {k \in Rows : \E p \in PRE[k] : getTaskIndex(p) = i}}

\* Building SUC and initialising the terminal tasks.
backwardInit ==
    /\ pc = "backwardInit"
    /\ SUC' = [i \in Rows |-> successors(i)]
    /\ LF' = [i \in Rows |-> IF successors(i) = {} THEN EF[i] ELSE 0]
    /\ LS' = [i \in Rows |-> IF successors(i) = {} THEN EF[i] - DUR[i] ELSE 0]
    /\ pc' = "backwardPass"
    /\ UNCHANGED <<ntask, DUR, PRE, ES, EF, SLACK, cols, fpasses, bpasses,
                   path, errCode>>

\* The successors whose LS the minimum is taken over.
computedSuccessors(s, i) == {c \in SUC[i] : s.LF[getTaskIndex(c)] # 0}

\* backwardRow taking the maximum of the successors' LS, not the minimum.
backwardRowTakesMax(s, i) ==
    LET counted == computedSuccessors(s, i)
        new_lf == Max({s.LS[getTaskIndex(c)] : c \in counted})
        new_ls == new_lf - DUR[i]
    IN  IF SUC[i] # {} /\ counted # {}
           /\ (new_lf # s.LF[i] \/ new_ls # s.LS[i])
        THEN [s EXCEPT !.LF[i] = new_lf, !.LS[i] = new_ls, !.changed = TRUE]
        ELSE s

\* The body of `for i in range(ntask - 1, -1, -1)` for row i.
backwardRow(s, i) ==
    LET counted == computedSuccessors(s, i)
        new_lf == Min({s.LS[getTaskIndex(c)] : c \in counted})
        new_ls == new_lf - DUR[i]
    IN  IF SUC[i] # {} /\ counted # {}
           /\ (new_lf # s.LF[i] \/ new_ls # s.LS[i])
        THEN [s EXCEPT !.LF[i] = new_lf, !.LS[i] = new_ls, !.changed = TRUE]
        ELSE s

RECURSIVE backwardLoop(_, _)
backwardLoop(s, i) ==
    IF i < 1 THEN s ELSE backwardLoop(backwardRow(s, i), i - 1)

backwardSweep ==
    backwardLoop([LS |-> LS, LF |-> LF, changed |-> FALSE], ntask)

\* One pass of backwardPass's loop; a pass without a change stores LS, LF.
backwardPass ==
    /\ pc = "backwardPass"
    /\ bpasses < MaxPasses
    /\ LET r == backwardSweep
       IN  /\ LS' = r.LS
           /\ LF' = r.LF
           /\ bpasses' = bpasses + 1
           /\ pc' = IF r.changed THEN "backwardPass" ELSE "slack"
           /\ cols' = IF r.changed THEN cols ELSE cols \cup {"LS", "LF"}
    /\ UNCHANGED <<ntask, DUR, PRE, ES, EF, SUC, SLACK, fpasses, path, errCode>>

\* ---- slack, and the return of computeCPM ----
slack ==
    /\ pc = "slack"
    /\ SLACK' = [i \in Rows |-> LS[i] - ES[i]]
    /\ cols' = cols \cup {"SLACK"}
    /\ pc' = "returned"
    /\ UNCHANGED <<ntask, DUR, PRE, ES, EF, LS, LF, SUC, fpasses, bpasses,
                   path, errCode>>

\* ---- critical_path_string ----
critical_activities == {i \in Rows : SLACK[i] = 0}

\* sortedByES with the sort left out: the rows in any order.
RECURSIVE unsortedRows(_)
unsortedRows(S) ==
    IF S = {}
    THEN {<<>>}
    ELSE UNION {{<<i>> \o q : q \in unsortedRows(S \ {i})} : i \in S}

\* sort_values(by='ES') uses the default kind, quicksort, which is not a
\* stable sort: rows of equal ES come out in an order the build decides.
RECURSIVE sortedByES(_)
sortedByES(S) ==
    IF S = {}
    THEN {<<>>}
    ELSE UNION {{<<i>> \o q : q \in sortedByES(S \ {i})} :
                   i \in {j \in S : \A m \in S : ES[j] <= ES[m]}}

critical_path_string ==
    /\ pc = "returned"
    /\ \E q \in sortedByES(critical_activities) :
          path' = [a \in 1..Len(q) |-> COD[q[a]]]
    /\ pc' = "done"
    /\ UNCHANGED <<ntask, DUR, PRE, ES, EF, LS, LF, SUC, SLACK, cols,
                   fpasses, bpasses, errCode>>

\* The project duration printTask reports.
projectDuration == Max({EF[i] : i \in Rows})

\* ---- the tables the runs start from ----
\* Rows left after repeatedly removing the rows none of whose predecessors
\* remains: empty exactly when the predecessor references have no cycle.
RECURSIVE Peel(_, _)
Peel(S, P) ==
    LET free == {i \in S : P[i] \cap {COD[j] : j \in S} = {}}
    IN  IF free = {} THEN S ELSE Peel(S \ free, P)

AcyclicTable(k, P) == Peel(1..k, P) = {}

\* computeCPM is entered with the table loaded and the arrays zeroed.
Start(k, P, D) ==
    /\ ntask = k
    /\ PRE = P
    /\ DUR = D
    /\ pc = "forwardPass"
    /\ ES = Zeros(k)
    /\ EF = Zeros(k)
    /\ LS = Zeros(k)
    /\ LF = Zeros(k)
    /\ SUC = [i \in 1..k |-> {}]
    /\ SLACK = Zeros(k)
    /\ cols = {}
    /\ fpasses = 0
    /\ bpasses = 0
    /\ path = <<>>
    /\ errCode = NoCode

\* Acyclic tables with known predecessor codes, in every row order.
Init ==
    \E k \in 1..MaxTasks :
        \E P \in [1..k -> SUBSET KnownCodes(k)] :
            /\ AcyclicTable(k, P)
            /\ \E D \in [1..k -> 0..MaxDur] : Start(k, P, D)

\* Any table: cycles and unknown predecessor codes included.
InitAny ==
    \E k \in 1..AnyTasks :
        \E P \in [1..k -> SUBSET (KnownCodes(k) \cup {UnknownCode})] :
            \E D \in [1..k -> 0..MaxDur] : Start(k, P, D)

\* Acyclic tables of WideTasks rows.
InitWide ==
    \E P \in [1..WideTasks -> SUBSET KnownCodes(WideTasks)] :
        /\ AcyclicTable(WideTasks, P)
        /\ \E D \in [1..WideTasks -> 0..MaxDur] : Start(WideTasks, P, D)

Next ==
    \/ forwardPass
    \/ backwardInit
    \/ backwardPass
    \/ slack
    \/ critical_path_string

Spec == Init /\ [][Next]_vars

SpecAny == InitAny /\ [][Next]_vars

SpecWide == InitWide /\ [][Next]_vars


\* ---- what the claims speak about ----
\* The rows a row's predecessor codes resolve to, and the rows naming it.
predIdx(i) == {getTaskIndex(p) : p \in PRE[i]}

succIdx(i) == {j \in Rows : i \in predIdx(j)}

AllCodesKnown == \A i \in Rows : PRE[i] \subseteq KnownCodes(ntask)

\* A valid table: known predecessor codes and no dependency cycle.
ValidTable == AllCodesKnown /\ AcyclicTable(ntask, PRE)

CyclicTable == AllCodesKnown /\ ~AcyclicTable(ntask, PRE)

ForwardReturned == pc \in {"backwardInit", "backwardPass", "slack", "returned", "done"}

BackwardReturned == pc \in {"slack", "returned", "done"}

Returned == pc \in {"returned", "done"}

\* ES and EF are the earliest times of the table.
ForwardCorrect ==
    \A i \in Rows :
        /\ ES[i] = (IF PRE[i] = {} THEN 0 ELSE Max({EF[j] : j \in predIdx(i)}))
        /\ EF[i] = ES[i] + DUR[i]

RECURSIVE SumDur(_)
SumDur(S) ==
    IF S = {} THEN 0
    ELSE LET x == CHOOSE y \in S : TRUE IN DUR[x] + SumDur(S \ {x})

RECURSIVE Ancestors(_)
Ancestors(i) == predIdx(i) \cup UNION {Ancestors(j) : j \in predIdx(i)}

\* The zero-slack tasks lie on one dependency path.
SingleChain ==
    \A i, j \in critical_activities :
        i # j => (i \in Ancestors(j) \/ j \in Ancestors(i))

\* ---- C1 ----
\* C1: on every valid table, in every row order, when forwardPass has
\* returned each task without predecessors has ES = 0 and each task with
\* predecessors has ES = the maximum of the final EF of its predecessors.
C1_ForwardPassES ==
    (ForwardReturned /\ ValidTable) =>
        \A i \in Rows :
            ES[i] = (IF PRE[i] = {} THEN 0 ELSE Max({EF[j] : j \in predIdx(i)}))

\* ---- C2 ----
\* C2: after computeCPM returns on a valid table, every task has ES <= LS,
\* that is SLACK = LS - ES >= 0.
C2_SlackNonNegative ==
    (Returned /\ ValidTable) =>
        \A i \in Rows : ES[i] <= LS[i] /\ SLACK[i] >= 0

\* ---- C3 ----
\* C3: after computeCPM returns on an acyclic table, every task has
\* EF = ES + DUR and LF = LS + DUR, updated by the backward loop or not.
C3_FinishIsStartPlusDuration ==
    (Returned /\ ValidTable) =>
        \A i \in Rows : EF[i] = ES[i] + DUR[i] /\ LF[i] = LS[i] + DUR[i]

\* ---- C4 ----
UnknownNamed == {c \in UNION {PRE[i] : i \in Rows} : c \notin KnownCodes(ntask)}

\* C4: when some predecessor list names a code that is no task's COD, the
\* run never gets past the first forward pass: it stores no ES, EF, LS, LF
\* or SLACK column and builds no path, and when it has quit the code it
\* printed is one of the unknown codes named in the table.
C4_UnknownPredecessorAborts ==
    (UnknownNamed # {}) =>
        /\ pc \in {"forwardPass", "quit"}
        /\ fpasses = 0
        /\ cols = {}
        /\ path = <<>>
        /\ (pc = "forwardPass" => errCode = NoCode)
        /\ (pc = "quit" => errCode \in UnknownNamed)

\* The run has quit on a table whose only bad reference is in its last row.
C4_Witness ==
    /\ pc = "quit"
    /\ errCode = UnknownCode
    /\ ntask = 2
    /\ PRE[1] = {}
    /\ PRE[2] = {"A", UnknownCode}

\* ---- C5 ----
\* C5: on a table with a dependency cycle neither loop runs more than
\* ntask + 1 passes and no schedule column is ever stored (the run ends in
\* a cyclic-dependency error instead).
C5_CycleFailsFast ==
    CyclicTable =>
        /\ fpasses <= ntask + 1
        /\ bpasses <= ntask + 1
        /\ cols = {}
        /\ ~ForwardReturned

\* ---- C6 ----
PathRows == [a \in 1..Len(path) |-> getTaskIndex(path[a])]

C7_DurationIsMaxLF ==
    (Returned /\ ValidTable) =>
        projectDuration = Max({LF[i] : i \in Rows})

C10_BackwardPassLF ==
    (BackwardReturned /\ ForwardCorrect /\ ValidTable) =>
        \A i \in Rows :
            LF[i] = (IF succIdx(i) = {} THEN EF[i]
                     ELSE Min({LS[j] : j \in succIdx(i)}))

=============================================================================
